---- MODULE Spec2Model ----
(***************************************************************************)
(* Model of the procedural store (src/store/ProceduralContext.tsx): the    *)
(* reconciliation engine reconcileTerminalState and the registry store     *)
(* built around it (nine registries, globalVersion, the writer callbacks,  *)
(* unregisterNode, flushPipelineInstance, triggerGlobalRefresh).           *)
(*                                                                         *)
(* JavaScript values.  An optional value is Undef (<<>>) or Def(v)         *)
(* (<<v>>).  An object is a function from the keys it owns to optional     *)
(* values: a key may be missing, or present and undefined, as in JS; a     *)
(* read of either gives Undef.  Object spread is Spread.  JSON.stringify   *)
(* is modelled by what it keeps: the keys whose value is defined (it       *)
(* omits undefined-valued keys); the order in which keys were inserted is  *)
(* not modelled.  Strings that the code inspects character by character    *)
(* (layer ids, startsWith) are sequences of characters.                    *)
(***************************************************************************)
EXTENDS Integers, Sequences, FiniteSets, TLC

VARIABLES
    psdRegistry,        \* NodeID -> Psd
    templateRegistry,   \* NodeID -> TemplateMetadata
    resolvedRegistry,   \* NodeID -> HandleID -> MappingContext
    payloadRegistry,    \* NodeID -> HandleID -> TransformedPayload
    reviewerRegistry,   \* NodeID -> HandleID -> TransformedPayload
    previewRegistry,    \* NodeID -> HandleID -> string
    analysisRegistry,   \* NodeID -> HandleID -> LayoutStrategy
    feedbackRegistry,   \* NodeID -> HandleID -> FeedbackStrategy
    knowledgeRegistry,  \* NodeID -> KnowledgeContext
    globalVersion,      \* number
    lastOp,             \* the last store operation called and its arguments
    changed,            \* registries whose setter returned a new object in the last operation
    opCount,            \* number of store operations called so far
    lastGen,            \* per address: the last generationId stored since the entry was created
    runs,               \* per generationId: state of the synthesis run of the generation service
    incoming,           \* reconcileTerminalState: argument incomingPayload
    current,            \* reconcileTerminalState: argument currentPayload
    resolved,           \* reconcileTerminalState: returned value
    pc,                 \* position of the reconcile harness
    other,              \* the store had the two writes of a pair arrived in the other order
    fork,               \* the pair of writes being applied, and how far
    teardown,           \* per address: the payload last removed by a flush or a node removal,
                        \* and the registerPayload calls made at the address since
    graph,              \* the consumers of a cascade: input address, output address, derivation
    dirty               \* the consumers whose input changed since they last ran

registries == <<psdRegistry, templateRegistry, resolvedRegistry, payloadRegistry,
                reviewerRegistry, previewRegistry, analysisRegistry,
                feedbackRegistry, knowledgeRegistry>>
storeVars == <<registries, globalVersion, lastOp, changed, opCount, lastGen, runs>>
pureVars == <<incoming, current, resolved, pc>>
commuteVars == <<other, fork>>
teardownVars == <<teardown>>
cascadeVars == <<graph, dirty>>
vars == <<storeVars, pureVars, commuteVars, teardownVars, cascadeVars>>

----------------------------------------------------------------------------
(* Bounds *)
MaxGen == 2         \* generationIds are 1..MaxGen
MaxLayers == 2      \* longest layers array
MaxOps == 3         \* store operations per behaviour of Spec

----------------------------------------------------------------------------
(* JavaScript values *)
Undef == <<>>
Def(v) == <<v>>
T == Def(TRUE)
F == Def(FALSE)

\* property read o.k
Get(o, k) == IF k \in DOMAIN o THEN o[k] ELSE Undef
\* { ...a, ...b }
Spread(a, b) == [k \in (DOMAIN a) \cup (DOMAIN b) |-> IF k \in DOMAIN b THEN b[k] ELSE a[k]]
\* truthiness of a boolean, a number, a string, an object
TruthyB(x) == x # Undef /\ x[1] = TRUE
TruthyN(x) == x # Undef /\ x[1] # 0
TruthyS(x) == x # Undef /\ x[1] # ""
TruthyO(x) == x # Undef
\* a ?? b
Nullish(a, b) == IF a # Undef THEN a ELSE b
\* s.startsWith(p) on character sequences
StartsWith(s, p) == Len(s) >= Len(p) /\ SubSeq(s, 1, Len(p)) = p
\* array.includes
Includes(seq, v) == \E i \in 1..Len(seq) : seq[i] = v
\* what JSON.stringify keeps of an object: the keys with a defined value
RECURSIVE StringifyLayers(_)
StringifyObject(o) == [k \in {k \in DOMAIN o : o[k] # Undef} |-> o[k]]
StringifyLayers(ls) ==
    IF ls = <<>> THEN <<>> ELSE <<StringifyObject(Head(ls))>> \o StringifyLayers(Tail(ls))
JSONstringify(o) ==
    [k \in {k \in DOMAIN o : o[k] # Undef} |->
        IF k = "layers" THEN Def(StringifyLayers(o[k][1])) ELSE o[k]]

----------------------------------------------------------------------------
(* reconcileTerminalState *)
GenLayerPrefix == <<"g", "e", "n", "-", "l", "a", "y", "e", "r", "-">>

\* the filter callback of the hard stop
KeepLayer(l) ==
    \/ Get(l, "type") # Def("generative")
    \/ (Get(l, "id") # Undef /\ Get(l, "id")[1] # <<>>
        /\ ~StartsWith(Get(l, "id")[1], GenLayerPrefix))

\* the reset test with its negation dropped
IsReset_genRequired(inc) ==
    Get(inc, "status") = Def("idle") /\ TruthyN(Get(inc, "generationId"))
IsReset(inc) == Get(inc, "status") = Def("idle") /\ ~TruthyN(Get(inc, "generationId"))
IsGated(inc) == Get(inc, "generationAllowed") = F
hasMandatoryDirective(inc) ==
    Get(inc, "directives") # Undef /\ Includes(Get(inc, "directives")[1], "MANDATORY_GEN_FILL")
\* the forcing test without the directive
isForced_flagOnly(inc) == TruthyB(Get(inc, "isMandatory"))
isForced(inc) == TruthyB(Get(inc, "isMandatory")) \/ hasMandatoryDirective(inc)
\* the stale guard removed
IsStale_never(inc, cur) == FALSE
\* the stale guard rejecting equal generationIds too
IsStale_orEqual(inc, cur) ==
    /\ cur # Undef
    /\ TruthyN(Get(cur[1], "generationId"))
    /\ TruthyN(Get(inc, "generationId"))
    /\ Get(inc, "generationId")[1] <= Get(cur[1], "generationId")[1]
\* the stale guard with its comparison reversed
IsStale_reversed(inc, cur) ==
    /\ cur # Undef
    /\ TruthyN(Get(cur[1], "generationId"))
    /\ TruthyN(Get(inc, "generationId"))
    /\ Get(inc, "generationId")[1] > Get(cur[1], "generationId")[1]
IsStale(inc, cur) ==
    /\ cur # Undef
    /\ TruthyN(Get(cur[1], "generationId"))
    /\ TruthyN(Get(inc, "generationId"))
    /\ Get(inc, "generationId")[1] < Get(cur[1], "generationId")[1]

\* the synthesis-start rule dropped
IsSynthesisStart_never(inc) == FALSE
IsSynthesisStart(inc) == TruthyB(Get(inc, "isSynthesizing"))
\* the geometric preservation rule dropped
IsGeometricOnly_never(inc, cur) == FALSE
IsGeometricOnly(inc, cur) ==
    /\ ~TruthyN(Get(inc, "generationId"))
    /\ TruthyN(IF cur = Undef THEN Undef ELSE Get(cur[1], "generationId"))

\* incomingPayload.layers.filter(...) on an undefined layers raises a TypeError
reconcileThrows(inc) == ~IsReset(inc) /\ IsGated(inc) /\ Get(inc, "layers") = Undef

Thrown == [exception |-> Def("TypeError")]

reconcileTerminalState(inc, cur) ==
    LET c(k) == IF cur = Undef THEN Undef ELSE Get(cur[1], k)
        OrS(k) == IF TruthyS(Get(inc, k)) THEN Get(inc, k) ELSE c(k)
        OrN(k) == IF TruthyN(Get(inc, k)) THEN Get(inc, k) ELSE c(k)
        OrO(k) == IF TruthyO(Get(inc, k)) THEN Get(inc, k) ELSE c(k)
        isConfirmed ==
            IF TruthyB(Get(inc, "isTransient")) THEN F
            ELSE Nullish(Get(inc, "isConfirmed"), Nullish(c("isConfirmed"), F))
    IN
    IF IsReset(inc) THEN
        Spread(inc, [previewUrl |-> Undef, isConfirmed |-> F, isTransient |-> F,
                     isSynthesizing |-> F, isPolished |-> F,
                     requiresGeneration |-> F, sourceReference |-> Undef])
    ELSE IF IsGated(inc) THEN
        IF Get(inc, "layers") = Undef THEN Thrown
        ELSE Spread(inc, [previewUrl |-> Undef, isConfirmed |-> F, isTransient |-> F,
                          isSynthesizing |-> F, requiresGeneration |-> F,
                          metrics |-> Get(inc, "metrics"),
                          layers |-> Def(SelectSeq(Get(inc, "layers")[1], KeepLayer))])
    ELSE IF isForced(inc) /\ TruthyB(Get(inc, "requiresGeneration")) THEN
        Spread(inc, [status |-> Def("success"), isConfirmed |-> T, isTransient |-> F,
                     isSynthesizing |-> Get(inc, "isSynthesizing"),
                     previewUrl |-> OrS("previewUrl"),
                     sourceReference |-> OrS("sourceReference"),
                     generationId |-> OrN("generationId")])
    ELSE IF IsStale(inc, cur) THEN
        cur[1]
    ELSE IF Get(inc, "status") = Def("idle") THEN
        Spread(inc, [previewUrl |-> Undef, isConfirmed |-> F, isTransient |-> F,
                     isSynthesizing |-> F])
    ELSE IF IsSynthesisStart(inc) THEN
        Spread(IF cur # Undef THEN cur[1] ELSE inc,
               [isSynthesizing |-> T,
                previewUrl |-> c("previewUrl"),
                sourceReference |-> OrS("sourceReference"),
                targetContainer |->
                    IF TruthyS(Get(inc, "targetContainer")) THEN Get(inc, "targetContainer")
                    ELSE IF TruthyS(c("targetContainer")) THEN c("targetContainer")
                    ELSE Def(""),
                metrics |-> OrO("metrics"),
                generationId |-> c("generationId"),
                generationAllowed |-> T])
    ELSE IF IsGeometricOnly(inc, cur) THEN
        Spread(inc, [previewUrl |-> c("previewUrl"),
                     generationId |-> c("generationId"),
                     isSynthesizing |-> c("isSynthesizing"),
                     isConfirmed |-> c("isConfirmed"),
                     isTransient |-> c("isTransient"),
                     sourceReference |->
                        IF TruthyS(c("sourceReference")) THEN c("sourceReference")
                        ELSE Get(inc, "sourceReference"),
                     generationAllowed |-> T])
    ELSE
        Spread(inc, [isConfirmed |-> isConfirmed,
                     sourceReference |-> OrS("sourceReference"),
                     generationId |-> OrN("generationId"),
                     generationAllowed |-> T])

----------------------------------------------------------------------------
(* Inputs *)
GenIds == 1..MaxGen
OptGen == {Undef} \cup {Def(g) : g \in GenIds}

\* an object literal: only the keys with a value are written
Compact(r) == [k \in {k \in DOMAIN r : r[k] # Undef} |-> r[k]]

SwappedId == <<"0", ".", "3", ".", "1">>
AdditiveId == GenLayerPrefix \o <<"9">>
PixelId == <<"b", "g">>
NearId == <<"g", "e", "n", "-", "l", "a", "y", "e", "r">>
LayerIds == {Undef, Def(<<>>), Def(SwappedId), Def(AdditiveId), Def(PixelId), Def(NearId)}
Layers == {Compact(l) : l \in [id : LayerIds, type : {Def("generative"), Def("pixel")}]}
RECURSIVE SeqsUpTo(_, _)
SeqsUpTo(S, n) ==
    IF n = 0 THEN {<<>>}
    ELSE LET shorter == SeqsUpTo(S, n - 1)
         IN shorter \cup {Append(q, x) : q \in shorter, x \in S}
LayerSeqs == SeqsUpTo(Layers, MaxLayers)
BaseLayers == <<[id |-> Def(SwappedId), type |-> Def("pixel")]>>
MandatoryDirectives == <<"MANDATORY_GEN_FILL">>

\* payloads a producer passes to reconcile: every combination of the flags the rules read
GeneralIncoming ==
    {Compact(r) : r \in
        [status : {Def("idle"), Def("pending")},
         generationId : OptGen,
         isConfirmed : {Undef, T, F},
         isTransient : {Undef, T},
         isSynthesizing : {Undef, T},
         isPolished : {T},
         requiresGeneration : {Undef, T},
         isMandatory : {Undef, T},
         directives : {Undef, Def(MandatoryDirectives)},
         generationAllowed : {Undef, F},
         previewUrl : {Undef, Def("a")},
         sourceReference : {Undef, Def("r")},
         targetContainer : {Def("C")},
         metrics : {Def("m")},
         layers : {Def(BaseLayers)}]}
\* gated payloads over every layers array
GatedIncoming ==
    {Compact(r) : r \in
        [status : {Def("pending")},
         generationId : {Undef, Def(1)},
         isConfirmed : {T},
         requiresGeneration : {T},
         generationAllowed : {F},
         previewUrl : {Def("a")},
         targetContainer : {Def("C")},
         metrics : {Def("m")},
         layers : {Def(ls) : ls \in LayerSeqs}]}
IncomingInputs == GeneralIncoming \cup GatedIncoming
\* stored payloads reconcile is called against
CurrentInputs ==
    {Undef} \cup
    {Def(Compact(r)) : r \in
        [status : {Def("success")},
         generationId : OptGen,
         isConfirmed : {Undef, T},
         isTransient : {Undef, T},
         isSynthesizing : {F},
         isPolished : {F},
         previewUrl : {Undef, Def("b")},
         sourceReference : {Undef, Def("q")},
         targetContainer : {Def("D")},
         metrics : {Def("n")},
         generationAllowed : {T},
         layers : {Def(<<>>)}]}

----------------------------------------------------------------------------
(* Registries: a Record<NodeID, V> is a function from the node ids it owns; *)
(* a Record<NodeID, Record<HandleID, V>> maps them to functions from the    *)
(* handle ids the node record owns (possibly none, after a flush).          *)
Nodes == {"n1", "n2"}
Slots == {"s1", "s2"}
EmptyRegistry == <<>>

\* prev[nodeId] || {}
NodeRecord(reg, n) == IF n \in DOMAIN reg THEN reg[n] ELSE <<>>
\* prev[nodeId]?.[handleId]
Lookup(reg, n, s) ==
    IF n \in DOMAIN reg /\ s \in DOMAIN reg[n] THEN Def(reg[n][s]) ELSE Undef
\* prev[nodeId] of a per-node registry
LookupNode(reg, n) == IF n \in DOMAIN reg THEN Def(reg[n]) ELSE Undef
\* { ...prev, [key]: v }
With(f, key, v) == [k \in (DOMAIN f) \cup {key} |-> IF k = key THEN v ELSE f[k]]
\* const { [key]: _, ...rest } = f
Rest(f, key) == [k \in (DOMAIN f) \ {key} |-> f[k]]
\* the nested write without the spread of nodeRecord
PutSlot_dropSiblings(reg, n, s, v) == With(reg, n, With(<<>>, s, v))
\* { ...prev, [nodeId]: { ...nodeRecord, [handleId]: v } }
PutSlot(reg, n, s, v) == With(reg, n, With(NodeRecord(reg, n), s, v))

\* what a setter's updater returned: the registry, and whether it is a new object
Same(prev) == [reg |-> prev, isNew |-> FALSE, raised |-> FALSE]
New(next) == [reg |-> next, isNew |-> TRUE, raised |-> FALSE]
Raise(prev) == [reg |-> prev, isNew |-> FALSE, raised |-> TRUE]

\* the shared updater without the deep equality check
ReconcileAndStore_noCompare(prev, n, s, effectivePayload) ==
    IF reconcileThrows(effectivePayload) THEN Raise(prev)
    ELSE New(PutSlot(prev, n, s,
                reconcileTerminalState(effectivePayload, Lookup(prev, n, s))))
\* the updater shared by registerPayload, registerReviewerPayload, registerPreviewPayload
\* and updatePayload: reconcile, compare, write
ReconcileAndStore(prev, n, s, effectivePayload) ==
    LET currentPayload == Lookup(prev, n, s)
        reconciledPayload == reconcileTerminalState(effectivePayload, currentPayload)
    IN IF reconcileThrows(effectivePayload) THEN Raise(prev)
       ELSE IF currentPayload # Undef
               /\ JSONstringify(currentPayload[1]) = JSONstringify(reconciledPayload)
            THEN Same(prev)
       ELSE New(PutSlot(prev, n, s, reconciledPayload))

\* registerPayload without the master override
registerPayloadUpdater_ignoreOverride(prev, n, s, payload, masterOverride) ==
    ReconcileAndStore(prev, n, s, payload)
registerPayloadUpdater(prev, n, s, payload, masterOverride) ==
    ReconcileAndStore(prev, n, s,
        IF masterOverride = F THEN Spread(payload, [generationAllowed |-> F]) ELSE payload)

registerReviewerUpdater(prev, n, s, payload) ==
    ReconcileAndStore(prev, n, s, Spread(payload, [isPolished |-> T]))

\* updatePayload without the guard on a missing payload
updatePayloadUpdater_noGuard(prev, n, s, partial) ==
    LET currentPayload == Lookup(prev, n, s)
    IN ReconcileAndStore(prev, n, s,
            IF currentPayload # Undef THEN Spread(currentPayload[1], partial) ELSE partial)
updatePayloadUpdater(prev, n, s, partial) ==
    LET currentPayload == Lookup(prev, n, s)
    IN IF currentPayload = Undef /\ ~TruthyS(Get(partial, "sourceContainer"))
          /\ ~TruthyS(Get(partial, "previewUrl"))
       THEN Same(prev)
       ELSE ReconcileAndStore(prev, n, s,
                IF currentPayload # Undef THEN Spread(currentPayload[1], partial) ELSE partial)

updatePreviewUpdater(prev, n, s, url) ==
    LET currentPayload == Lookup(prev, n, s)
    IN IF n \notin DOMAIN prev THEN Same(prev)
       ELSE IF currentPayload = Undef THEN Same(prev)
       ELSE IF Get(currentPayload[1], "previewUrl") = Def(url) THEN Same(prev)
       ELSE New(PutSlot(prev, n, s, Spread(currentPayload[1], [previewUrl |-> Def(url)])))

\* registerTemplate, registerKnowledge: identity, then JSON.stringify equality
registerNodeValueUpdater(prev, n, v) ==
    IF LookupNode(prev, n) = Def(v) THEN Same(prev) ELSE New(With(prev, n, v))
\* registerPsd: no comparison
registerPsdUpdater(prev, n, psd) == New(With(prev, n, psd))
\* registerResolved, registerAnalysis, registerFeedback, the preview write of
\* registerPreviewPayload
registerSlotValueUpdater(prev, n, s, v) ==
    IF Lookup(prev, n, s) = Def(v) THEN Same(prev) ELSE New(PutSlot(prev, n, s, v))

\* clearFeedback dropping the node record instead of the handle
clearFeedbackUpdater_wholeNode(prev, n, s) ==
    IF n \notin DOMAIN prev THEN Same(prev)
    ELSE IF s \notin DOMAIN prev[n] THEN Same(prev)
    ELSE New(Rest(prev, n))
clearFeedbackUpdater(prev, n, s) ==
    IF n \notin DOMAIN prev THEN Same(prev)
    ELSE IF s \notin DOMAIN prev[n] THEN Same(prev)
    ELSE New(With(prev, n, Rest(prev[n], s)))

\* unregisterNode: the unguarded setters, and the guarded ones (knowledge, preview)
\* the unguarded setter dropping every node
removeNodeUpdater_clearsAll(prev, n) == New(EmptyRegistry)
removeNodeUpdater(prev, n) == New(Rest(prev, n))
\* the guarded setter with its guard inverted
removeNodeGuardedUpdater_inverted(prev, n) ==
    IF n \in DOMAIN prev THEN Same(prev) ELSE New(Rest(prev, n))
removeNodeGuardedUpdater(prev, n) ==
    IF n \notin DOMAIN prev THEN Same(prev) ELSE New(Rest(prev, n))

\* clearEntry dropping the node record instead of the handle
clearEntry_wholeNode(prev, n, s) ==
    IF n \notin DOMAIN prev THEN Same(prev) ELSE New(Rest(prev, n))
\* clearEntry copying the node record without dropping the handle
clearEntry_keepsEntry(prev, n, s) ==
    IF n \notin DOMAIN prev THEN Same(prev) ELSE New(prev)
\* flushPipelineInstance: clearEntry
clearEntry(prev, n, s) ==
    IF n \notin DOMAIN prev THEN Same(prev) ELSE New(With(prev, n, Rest(prev[n], s)))

----------------------------------------------------------------------------
(* Store operations.  Each action is one call of a callback of the store:   *)
(* all its setters are applied before anything else can observe the store.  *)

\* the record of a call; again: the previous call had the same name and arguments
Op(name, n, s, args, raised) ==
    [op |-> name, node |-> n, slot |-> s, args |-> args, raised |-> raised,
     again |-> (lastOp.op = name /\ lastOp.node = n /\ lastOp.slot = s /\ lastOp.args = args)]
Signal(name, r) == IF r.isNew THEN {name} ELSE {}
\* bookkeeping of the generationIds stored in payloadRegistry
TrackGen ==
    lastGen' = [n \in Nodes, s \in Slots |->
        LET stored == Lookup(payloadRegistry', n, s)
        IN IF stored = Undef THEN Undef
           ELSE IF Get(stored[1], "generationId") # Undef THEN Get(stored[1], "generationId")
           ELSE lastGen[n, s]]

RegisterPsd(n, psd) ==
    LET r == registerPsdUpdater(psdRegistry, n, psd) IN
    /\ psdRegistry' = r.reg
    /\ changed' = Signal("psdRegistry", r)
    /\ lastOp' = Op("registerPsd", n, "-", <<psd>>, FALSE)
    /\ UNCHANGED <<templateRegistry, resolvedRegistry, payloadRegistry, reviewerRegistry,
                   previewRegistry, analysisRegistry, feedbackRegistry, knowledgeRegistry,
                   globalVersion, lastGen>>

RegisterTemplate(n, template) ==
    LET r == registerNodeValueUpdater(templateRegistry, n, template) IN
    /\ templateRegistry' = r.reg
    /\ changed' = Signal("templateRegistry", r)
    /\ lastOp' = Op("registerTemplate", n, "-", <<template>>, FALSE)
    /\ UNCHANGED <<psdRegistry, resolvedRegistry, payloadRegistry, reviewerRegistry,
                   previewRegistry, analysisRegistry, feedbackRegistry, knowledgeRegistry,
                   globalVersion, lastGen>>

RegisterKnowledge(n, context) ==
    LET r == registerNodeValueUpdater(knowledgeRegistry, n, context) IN
    /\ knowledgeRegistry' = r.reg
    /\ changed' = Signal("knowledgeRegistry", r)
    /\ lastOp' = Op("registerKnowledge", n, "-", <<context>>, FALSE)
    /\ UNCHANGED <<psdRegistry, templateRegistry, resolvedRegistry, payloadRegistry,
                   reviewerRegistry, previewRegistry, analysisRegistry, feedbackRegistry,
                   globalVersion, lastGen>>

RegisterResolved(n, s, context) ==
    LET r == registerSlotValueUpdater(resolvedRegistry, n, s, context) IN
    /\ resolvedRegistry' = r.reg
    /\ changed' = Signal("resolvedRegistry", r)
    /\ lastOp' = Op("registerResolved", n, s, <<context>>, FALSE)
    /\ UNCHANGED <<psdRegistry, templateRegistry, payloadRegistry, reviewerRegistry,
                   previewRegistry, analysisRegistry, feedbackRegistry, knowledgeRegistry,
                   globalVersion, lastGen>>

RegisterAnalysis(n, s, strategy) ==
    LET r == registerSlotValueUpdater(analysisRegistry, n, s, strategy) IN
    /\ analysisRegistry' = r.reg
    /\ changed' = Signal("analysisRegistry", r)
    /\ lastOp' = Op("registerAnalysis", n, s, <<strategy>>, FALSE)
    /\ UNCHANGED <<psdRegistry, templateRegistry, resolvedRegistry, payloadRegistry,
                   reviewerRegistry, previewRegistry, feedbackRegistry, knowledgeRegistry,
                   globalVersion, lastGen>>

RegisterFeedback(n, s, strategy) ==
    LET r == registerSlotValueUpdater(feedbackRegistry, n, s, strategy) IN
    /\ feedbackRegistry' = r.reg
    /\ changed' = Signal("feedbackRegistry", r)
    /\ lastOp' = Op("registerFeedback", n, s, <<strategy>>, FALSE)
    /\ UNCHANGED <<psdRegistry, templateRegistry, resolvedRegistry, payloadRegistry,
                   reviewerRegistry, previewRegistry, analysisRegistry, knowledgeRegistry,
                   globalVersion, lastGen>>

ClearFeedback(n, s) ==
    LET r == clearFeedbackUpdater(feedbackRegistry, n, s) IN
    /\ feedbackRegistry' = r.reg
    /\ changed' = Signal("feedbackRegistry", r)
    /\ lastOp' = Op("clearFeedback", n, s, <<>>, FALSE)
    /\ UNCHANGED <<psdRegistry, templateRegistry, resolvedRegistry, payloadRegistry,
                   reviewerRegistry, previewRegistry, analysisRegistry, knowledgeRegistry,
                   globalVersion, lastGen>>

RegisterPayload(n, s, payload, masterOverride) ==
    LET r == registerPayloadUpdater(payloadRegistry, n, s, payload, masterOverride) IN
    /\ payloadRegistry' = r.reg
    /\ changed' = Signal("payloadRegistry", r)
    /\ lastOp' = Op("registerPayload", n, s, <<payload, masterOverride>>, r.raised)
    /\ TrackGen
    /\ UNCHANGED <<psdRegistry, templateRegistry, resolvedRegistry, reviewerRegistry,
                   previewRegistry, analysisRegistry, feedbackRegistry, knowledgeRegistry,
                   globalVersion>>

RegisterReviewerPayload(n, s, payload) ==
    LET r == registerReviewerUpdater(reviewerRegistry, n, s, payload) IN
    /\ reviewerRegistry' = r.reg
    /\ changed' = Signal("reviewerRegistry", r)
    /\ lastOp' = Op("registerReviewerPayload", n, s, <<payload>>, r.raised)
    /\ UNCHANGED <<psdRegistry, templateRegistry, resolvedRegistry, payloadRegistry,
                   previewRegistry, analysisRegistry, feedbackRegistry, knowledgeRegistry,
                   globalVersion, lastGen>>

RegisterPreviewPayload(n, s, payload, renderUrl) ==
    LET rp == registerSlotValueUpdater(previewRegistry, n, s, renderUrl)
        rr == registerReviewerUpdater(reviewerRegistry, n, s, payload)
    IN
    /\ previewRegistry' = rp.reg
    /\ reviewerRegistry' = rr.reg
    /\ changed' = Signal("previewRegistry", rp) \cup Signal("reviewerRegistry", rr)
    /\ lastOp' = Op("registerPreviewPayload", n, s, <<payload, renderUrl>>, rr.raised)
    /\ UNCHANGED <<psdRegistry, templateRegistry, resolvedRegistry, payloadRegistry,
                   analysisRegistry, feedbackRegistry, knowledgeRegistry,
                   globalVersion, lastGen>>

UpdatePayload(n, s, partial) ==
    LET r == updatePayloadUpdater(payloadRegistry, n, s, partial) IN
    /\ payloadRegistry' = r.reg
    /\ changed' = Signal("payloadRegistry", r)
    /\ lastOp' = Op("updatePayload", n, s, <<partial>>, r.raised)
    /\ TrackGen
    /\ UNCHANGED <<psdRegistry, templateRegistry, resolvedRegistry, reviewerRegistry,
                   previewRegistry, analysisRegistry, feedbackRegistry, knowledgeRegistry,
                   globalVersion>>

UpdatePreview(n, s, url) ==
    LET r == updatePreviewUpdater(payloadRegistry, n, s, url) IN
    /\ payloadRegistry' = r.reg
    /\ changed' = Signal("payloadRegistry", r)
    /\ lastOp' = Op("updatePreview", n, s, <<url>>, FALSE)
    /\ TrackGen
    /\ UNCHANGED <<psdRegistry, templateRegistry, resolvedRegistry, reviewerRegistry,
                   previewRegistry, analysisRegistry, feedbackRegistry, knowledgeRegistry,
                   globalVersion>>

UnregisterNode(n) ==
    LET rk == removeNodeGuardedUpdater(knowledgeRegistry, n)
        rv == removeNodeGuardedUpdater(previewRegistry, n)
    IN
    /\ psdRegistry' = removeNodeUpdater(psdRegistry, n).reg
    /\ templateRegistry' = removeNodeUpdater(templateRegistry, n).reg
    /\ resolvedRegistry' = removeNodeUpdater(resolvedRegistry, n).reg
    /\ payloadRegistry' = removeNodeUpdater(payloadRegistry, n).reg
    /\ reviewerRegistry' = removeNodeUpdater(reviewerRegistry, n).reg
    /\ analysisRegistry' = removeNodeUpdater(analysisRegistry, n).reg
    /\ feedbackRegistry' = removeNodeUpdater(feedbackRegistry, n).reg
    /\ knowledgeRegistry' = rk.reg
    /\ previewRegistry' = rv.reg
    /\ globalVersion' = globalVersion + 1
    /\ changed' = {"psdRegistry", "templateRegistry", "resolvedRegistry", "payloadRegistry",
                   "reviewerRegistry", "analysisRegistry", "feedbackRegistry", "globalVersion"}
                  \cup Signal("knowledgeRegistry", rk) \cup Signal("previewRegistry", rv)
    /\ lastOp' = Op("unregisterNode", n, "-", <<>>, FALSE)
    /\ TrackGen

FlushPipelineInstance(n, s) ==
    LET rr == clearEntry(resolvedRegistry, n, s)
        rp == clearEntry(payloadRegistry, n, s)
        rw == clearEntry(reviewerRegistry, n, s)
        rv == clearEntry(previewRegistry, n, s)
        ra == clearEntry(analysisRegistry, n, s)
        rf == clearEntry(feedbackRegistry, n, s)
    IN
    /\ resolvedRegistry' = rr.reg
    /\ payloadRegistry' = rp.reg
    /\ reviewerRegistry' = rw.reg
    /\ previewRegistry' = rv.reg
    /\ analysisRegistry' = ra.reg
    /\ feedbackRegistry' = rf.reg
    /\ changed' = Signal("resolvedRegistry", rr) \cup Signal("payloadRegistry", rp)
                  \cup Signal("reviewerRegistry", rw) \cup Signal("previewRegistry", rv)
                  \cup Signal("analysisRegistry", ra) \cup Signal("feedbackRegistry", rf)
    /\ lastOp' = Op("flushPipelineInstance", n, s, <<>>, FALSE)
    /\ TrackGen
    /\ UNCHANGED <<psdRegistry, templateRegistry, knowledgeRegistry, globalVersion>>

\* the refresh counting down
TriggerGlobalRefresh_decrement ==
    /\ globalVersion' = globalVersion - 1
    /\ changed' = {"globalVersion"}
    /\ lastOp' = Op("triggerGlobalRefresh", "-", "-", <<>>, FALSE)
    /\ UNCHANGED <<registries, lastGen>>
\* the refresh dropping the rendered previews too
TriggerGlobalRefresh_clearsPreview ==
    /\ globalVersion' = globalVersion + 1
    /\ previewRegistry' = EmptyRegistry
    /\ changed' = {"globalVersion", "previewRegistry"}
    /\ lastOp' = Op("triggerGlobalRefresh", "-", "-", <<>>, FALSE)
    /\ UNCHANGED <<psdRegistry, templateRegistry, resolvedRegistry, payloadRegistry,
                   reviewerRegistry, analysisRegistry, feedbackRegistry, knowledgeRegistry,
                   lastGen>>
TriggerGlobalRefresh ==
    /\ globalVersion' = globalVersion + 1
    /\ changed' = {"globalVersion"}
    /\ lastOp' = Op("triggerGlobalRefresh", "-", "-", <<>>, FALSE)
    /\ UNCHANGED <<registries, lastGen>>

----------------------------------------------------------------------------
(* The store after construction (useState initial values) *)
NoOp == [op |-> "none", node |-> "-", slot |-> "-", args |-> <<>>, raised |-> FALSE,
         again |-> FALSE]
NoStore ==
    /\ psdRegistry = EmptyRegistry
    /\ templateRegistry = EmptyRegistry
    /\ resolvedRegistry = EmptyRegistry
    /\ payloadRegistry = EmptyRegistry
    /\ reviewerRegistry = EmptyRegistry
    /\ previewRegistry = EmptyRegistry
    /\ analysisRegistry = EmptyRegistry
    /\ feedbackRegistry = EmptyRegistry
    /\ knowledgeRegistry = EmptyRegistry
    /\ globalVersion = 0
    /\ lastOp = NoOp
    /\ changed = {}
    /\ opCount = 0
    /\ lastGen = [n \in Nodes, s \in Slots |-> Undef]
    /\ runs = [g \in GenIds |-> "idle"]
NoCall ==
    /\ incoming = Undef
    /\ current = Undef
    /\ resolved = Undef
    /\ pc = "none"
NoFork ==
    /\ other = Undef
    /\ fork = Undef
NoTeardown == teardown = [n \in Nodes, s \in Slots |-> Undef]
NoCascade ==
    /\ graph = {}
    /\ dirty = {}

\* payloads the producers write
ResetPayload ==
    [status |-> Def("idle"), targetContainer |-> Def("C"), metrics |-> Def("m"),
     layers |-> Def(BaseLayers)]
ResultPayload(g) ==
    [status |-> Def("success"), generationId |-> Def(g), previewUrl |-> Def("a"),
     isConfirmed |-> T, targetContainer |-> Def("C"), metrics |-> Def("m"),
     layers |-> Def(BaseLayers)]
SynthesisStartPayload ==
    [status |-> Def("pending"), isSynthesizing |-> T, targetContainer |-> Def("C"),
     metrics |-> Def("m"), layers |-> Def(BaseLayers)]

GeometricPayload ==
    [status |-> Def("pending"), targetContainer |-> Def("C"), metrics |-> Def("m2"),
     layers |-> Def(<<>>)]
GatedPayload(g) == Spread(ResultPayload(g), [generationAllowed |-> F])
MandatoryPayload(g) ==
    [status |-> Def("pending"), generationId |-> Def(g), requiresGeneration |-> T,
     isMandatory |-> T, targetContainer |-> Def("C"), metrics |-> Def("m"),
     layers |-> Def(BaseLayers)]
MandatoryFillPayload ==
    [status |-> Def("pending"), requiresGeneration |-> T,
     directives |-> Def(MandatoryDirectives), targetContainer |-> Def("C"),
     metrics |-> Def("m2"), layers |-> Def(BaseLayers)]
TransientDraftPayload ==
    [status |-> Def("pending"), isSynthesizing |-> T, isTransient |-> T, isConfirmed |-> T,
     targetContainer |-> Def("C"), metrics |-> Def("m"), layers |-> Def(BaseLayers)]
IdlePayload(g) ==
    [status |-> Def("idle"), generationId |-> Def(g), previewUrl |-> Def("a"),
     targetContainer |-> Def("C"), metrics |-> Def("m"), layers |-> Def(BaseLayers)]

----------------------------------------------------------------------------
(* Spec: the whole store, every callback, at most MaxOps calls *)
OpaqueValues == {"v1"}
StorePayloads == {ResultPayload(1)}
ReviewPayloads == {ResetPayload, ResultPayload(1)}
StoreUrls == {"a"}
StorePartials == {[previewUrl |-> Def("b")]}

Init == NoStore /\ NoCall /\ NoFork /\ NoTeardown /\ NoCascade

\* one more call, while fewer than MaxOps were made
Counted ==
    /\ opCount < MaxOps
    /\ opCount' = opCount + 1
    /\ UNCHANGED <<runs, pureVars, commuteVars, teardownVars, cascadeVars>>

Next ==
    \/ \E n \in Nodes, v \in OpaqueValues : Counted /\ RegisterPsd(n, v)
    \/ \E n \in Nodes, v \in OpaqueValues : Counted /\ RegisterTemplate(n, v)
    \/ \E n \in Nodes, v \in OpaqueValues : Counted /\ RegisterKnowledge(n, v)
    \/ \E n \in Nodes, s \in Slots, v \in OpaqueValues : Counted /\ RegisterResolved(n, s, v)
    \/ \E n \in Nodes, s \in Slots, v \in OpaqueValues : Counted /\ RegisterAnalysis(n, s, v)
    \/ \E n \in Nodes, s \in Slots, v \in OpaqueValues : Counted /\ RegisterFeedback(n, s, v)
    \/ \E n \in Nodes, s \in Slots : Counted /\ ClearFeedback(n, s)
    \/ \E n \in Nodes, s \in Slots, p \in StorePayloads :
            Counted /\ RegisterPayload(n, s, p, Undef)
    \/ \E n \in Nodes, s \in Slots, p \in ReviewPayloads :
            Counted /\ RegisterReviewerPayload(n, s, p)
    \/ \E n \in Nodes, s \in Slots, p \in StorePayloads, u \in StoreUrls :
            Counted /\ RegisterPreviewPayload(n, s, p, u)
    \/ \E n \in Nodes, s \in Slots, q \in StorePartials : Counted /\ UpdatePayload(n, s, q)
    \/ \E n \in Nodes, s \in Slots, u \in StoreUrls : Counted /\ UpdatePreview(n, s, u)
    \/ \E n \in Nodes : Counted /\ UnregisterNode(n)
    \/ \E n \in Nodes, s \in Slots : Counted /\ FlushPipelineInstance(n, s)
    \/ Counted /\ TriggerGlobalRefresh

Spec == Init /\ [][Next]_vars

----------------------------------------------------------------------------
(* SpecPayload: one PayloadRegistry cell under every order of writes *)
PayloadNodes == {"n1"}
PayloadSlots == {"s1"}
PayloadInputs ==
    {ResetPayload, SynthesisStartPayload, GeometricPayload, MandatoryFillPayload,
     TransientDraftPayload}
    \cup {ResultPayload(g) : g \in GenIds}
    \cup {GatedPayload(g) : g \in GenIds}
    \cup {MandatoryPayload(g) : g \in GenIds}
    \cup {IdlePayload(g) : g \in GenIds}
PayloadPartials ==
    {[previewUrl |-> Def("b")],
     [generationAllowed |-> F],
     [isSynthesizing |-> T],
     [status |-> Def("idle"), generationId |-> Undef],
     [sourceContainer |-> Def("S"), generationId |-> Def(1)],
     [previewUrl |-> Def("b"), generationAllowed |-> F]}
PayloadUrls == {"a", "b"}

InitPayload == NoStore /\ NoCall /\ NoFork /\ NoTeardown /\ NoCascade

Uncounted == UNCHANGED <<opCount, runs, pureVars, commuteVars, teardownVars, cascadeVars>>

NextPayload ==
    \/ \E n \in PayloadNodes, s \in PayloadSlots, p \in PayloadInputs, mo \in {Undef, F} :
            RegisterPayload(n, s, p, mo) /\ Uncounted
    \/ \E n \in PayloadNodes, s \in PayloadSlots, q \in PayloadPartials :
            UpdatePayload(n, s, q) /\ Uncounted
    \/ \E n \in PayloadNodes, s \in PayloadSlots, u \in PayloadUrls :
            UpdatePreview(n, s, u) /\ Uncounted
    \/ \E n \in PayloadNodes, s \in PayloadSlots :
            FlushPipelineInstance(n, s) /\ Uncounted

SpecPayload == InitPayload /\ [][NextPayload]_vars

----------------------------------------------------------------------------
(* SpecSynthesis: the writes of one slot's producers around a synthesis run: *)
(* synthesis start, synthesis complete, user reset, layout recompute.  A run *)
(* is idle, inflight, superseded (a reset was written while it was in        *)
(* flight), delivered, or late (its result arrived after that reset).        *)
StartSynthesis(n, s, g) ==
    /\ runs[g] = "idle"
    /\ RegisterPayload(n, s, SynthesisStartPayload, Undef)
    /\ runs' = [runs EXCEPT ![g] = "inflight"]
    /\ UNCHANGED <<opCount, pureVars, commuteVars, teardownVars, cascadeVars>>

ResetWrite(n, s) ==
    /\ RegisterPayload(n, s, ResetPayload, Undef)
    /\ runs' = [g \in GenIds |-> IF runs[g] = "inflight" THEN "superseded" ELSE runs[g]]
    /\ UNCHANGED <<opCount, pureVars, commuteVars, teardownVars, cascadeVars>>

SynthesisResult(n, s, g) ==
    /\ runs[g] \in {"inflight", "superseded"}
    /\ RegisterPayload(n, s, ResultPayload(g), Undef)
    /\ runs' = [runs EXCEPT ![g] = IF runs[g] = "superseded" THEN "late" ELSE "delivered"]
    /\ UNCHANGED <<opCount, pureVars, commuteVars, teardownVars, cascadeVars>>

LayoutRecompute(n, s) ==
    /\ RegisterPayload(n, s, GeometricPayload, Undef)
    /\ UNCHANGED <<runs, opCount, pureVars, commuteVars, teardownVars, cascadeVars>>

InitSynthesis == NoStore /\ NoCall /\ NoFork /\ NoTeardown /\ NoCascade

NextSynthesis ==
    \/ \E g \in GenIds : StartSynthesis("n1", "s1", g)
    \/ ResetWrite("n1", "s1")
    \/ \E g \in GenIds : SynthesisResult("n1", "s1", g)
    \/ LayoutRecompute("n1", "s1")

SpecSynthesis == InitSynthesis /\ [][NextSynthesis]_vars

----------------------------------------------------------------------------
(* The reconciliation engine on its own: one call of reconcileTerminalState *)
InitReconcile ==
    /\ NoStore
    /\ NoFork
    /\ NoTeardown
    /\ NoCascade
    /\ incoming \in IncomingInputs
    /\ current \in CurrentInputs
    /\ resolved = Undef
    /\ pc = "call"

Reconcile ==
    /\ pc = "call"
    /\ resolved' = Def(reconcileTerminalState(incoming, current))
    /\ pc' = "return"
    /\ UNCHANGED <<incoming, current, storeVars, commuteVars, teardownVars, cascadeVars>>

NextReconcile == Reconcile
SpecReconcile == InitReconcile /\ [][NextReconcile]_vars

----------------------------------------------------------------------------
(* SpecCommute: two writes to distinct addresses, applied to the store in one *)
(* order (the store's own variables) and, through the same updaters, in the   *)
(* other order (other).                                                       *)
MaxSetup == 1       \* writes made before the pair
\* same node and other slot, other node and same slot, other node and other slot
Addresses == {<<"n1", "s1">>, <<"n1", "s2">>, <<"n2", "s1">>}
CommutePayloads == {ResultPayload(1), ResultPayload(2)}
CommutePartials == {[previewUrl |-> Def("b")]}
WriteCall(name, a, arg) == [op |-> name, node |-> a[1], slot |-> a[2], arg |-> arg]
CommuteWrites ==
    {WriteCall("registerPayload", a, p) : a \in Addresses, p \in CommutePayloads}
    \cup {WriteCall("updatePayload", a, q) : a \in Addresses, q \in CommutePartials}
    \cup {WriteCall("registerReviewerPayload", a, p) : a \in Addresses, p \in StorePayloads}
    \cup {WriteCall(name, a, v) : name \in {"registerAnalysis", "registerFeedback",
                                            "registerResolved"},
                                  a \in Addresses, v \in OpaqueValues}

\* the store: the nine registries and globalVersion
Snapshot ==
    [psdRegistry |-> psdRegistry, templateRegistry |-> templateRegistry,
     resolvedRegistry |-> resolvedRegistry, payloadRegistry |-> payloadRegistry,
     reviewerRegistry |-> reviewerRegistry, previewRegistry |-> previewRegistry,
     analysisRegistry |-> analysisRegistry, feedbackRegistry |-> feedbackRegistry,
     knowledgeRegistry |-> knowledgeRegistry, globalVersion |-> globalVersion]

\* the call w made on the store
DoWrite(w) ==
    \/ w.op = "registerPayload" /\ RegisterPayload(w.node, w.slot, w.arg, Undef)
    \/ w.op = "updatePayload" /\ UpdatePayload(w.node, w.slot, w.arg)
    \/ w.op = "registerReviewerPayload" /\ RegisterReviewerPayload(w.node, w.slot, w.arg)
    \/ w.op = "registerAnalysis" /\ RegisterAnalysis(w.node, w.slot, w.arg)
    \/ w.op = "registerFeedback" /\ RegisterFeedback(w.node, w.slot, w.arg)
    \/ w.op = "registerResolved" /\ RegisterResolved(w.node, w.slot, w.arg)
\* the same call made on the store st
ApplyWrite(st, w) ==
    CASE w.op = "registerPayload" ->
            [st EXCEPT !.payloadRegistry =
                registerPayloadUpdater(@, w.node, w.slot, w.arg, Undef).reg]
      [] w.op = "updatePayload" ->
            [st EXCEPT !.payloadRegistry = updatePayloadUpdater(@, w.node, w.slot, w.arg).reg]
      [] w.op = "registerReviewerPayload" ->
            [st EXCEPT !.reviewerRegistry =
                registerReviewerUpdater(@, w.node, w.slot, w.arg).reg]
      [] w.op = "registerAnalysis" ->
            [st EXCEPT !.analysisRegistry =
                registerSlotValueUpdater(@, w.node, w.slot, w.arg).reg]
      [] w.op = "registerFeedback" ->
            [st EXCEPT !.feedbackRegistry =
                registerSlotValueUpdater(@, w.node, w.slot, w.arg).reg]
      [] w.op = "registerResolved" ->
            [st EXCEPT !.resolvedRegistry =
                registerSlotValueUpdater(@, w.node, w.slot, w.arg).reg]

SetupWrite(w) ==
    /\ fork = Undef
    /\ opCount < MaxSetup
    /\ opCount' = opCount + 1
    /\ DoWrite(w)
    /\ UNCHANGED <<runs, pureVars, commuteVars, teardownVars, cascadeVars>>

WriteFirst(w1, w2) ==
    /\ fork = Undef
    /\ <<w1.node, w1.slot>> # <<w2.node, w2.slot>>
    /\ DoWrite(w1)
    /\ other' = Def(ApplyWrite(Snapshot, w2))
    /\ fork' = Def([first |-> w1, second |-> w2, stage |-> "half"])
    /\ UNCHANGED <<opCount, runs, pureVars, teardownVars, cascadeVars>>

WriteSecond ==
    /\ fork # Undef
    /\ fork[1].stage = "half"
    /\ DoWrite(fork[1].second)
    /\ other' = Def(ApplyWrite(other[1], fork[1].first))
    /\ fork' = Def([fork[1] EXCEPT !.stage = "joined"])
    /\ UNCHANGED <<opCount, runs, pureVars, teardownVars, cascadeVars>>

InitCommute == NoStore /\ NoCall /\ NoFork /\ NoTeardown /\ NoCascade

NextCommute ==
    \/ \E w \in CommuteWrites : SetupWrite(w)
    \/ \E w1 \in CommuteWrites, w2 \in CommuteWrites : WriteFirst(w1, w2)
    \/ WriteSecond

SpecCommute == InitCommute /\ [][NextCommute]_vars

----------------------------------------------------------------------------
(* SpecTeardown: registerPayload around flushPipelineInstance and unregisterNode, *)
(* at most MaxOps calls; teardown remembers what a flush or removal took away.    *)
SynthesisPayload(g) == Spread(SynthesisStartPayload, [generationId |-> Def(g)])
TeardownPayloads ==
    {ResetPayload, GatedPayload(1), SynthesisPayload(1), ResultPayload(0)}
    \cup {ResultPayload(g) : g \in GenIds}

\* bookkeeping: the payload a flush or a removal took from an address, and the
\* registerPayload calls made at the address since (0, 1, or 2 for more)
TrackTeardown ==
    teardown' = [n \in Nodes, s \in Slots |->
        IF \/ (lastOp'.op = "flushPipelineInstance" /\ lastOp'.node = n /\ lastOp'.slot = s)
           \/ (lastOp'.op = "unregisterNode" /\ lastOp'.node = n)
        THEN IF Lookup(payloadRegistry, n, s) # Undef
             THEN Def([removed |-> Lookup(payloadRegistry, n, s)[1], by |-> lastOp'.op,
                       writes |-> 0])
             ELSE teardown[n, s]
        ELSE IF /\ lastOp'.op = "registerPayload" /\ lastOp'.node = n /\ lastOp'.slot = s
                /\ teardown[n, s] # Undef
        THEN Def([teardown[n, s][1] EXCEPT !.writes = IF @ = 0 THEN 1 ELSE 2])
        ELSE teardown[n, s]]

Tracked ==
    /\ opCount < MaxOps
    /\ opCount' = opCount + 1
    /\ TrackTeardown
    /\ UNCHANGED <<runs, pureVars, commuteVars, cascadeVars>>

InitTeardown == NoStore /\ NoCall /\ NoFork /\ NoTeardown /\ NoCascade

NextTeardown ==
    \/ \E n \in Nodes, s \in PayloadSlots, p \in TeardownPayloads :
            RegisterPayload(n, s, p, Undef) /\ Tracked
    \/ \E n \in Nodes, s \in PayloadSlots : FlushPipelineInstance(n, s) /\ Tracked
    \/ \E n \in Nodes : UnregisterNode(n) /\ Tracked

SpecTeardown == InitTeardown /\ [][NextTeardown]_vars

----------------------------------------------------------------------------
(* SpecCascade: an upstream producer writes the source slot; every consumer  *)
(* reads one slot and, when that slot changed, derives a payload from what   *)
(* it read and registers it at its own output slot.  The graph is any set of *)
(* consumers with distinct output slots whose edges follow Rank.             *)
CascadeSource == <<"n1", "s1">>
Rank(a) == CASE a = <<"n1", "s1">> -> 0
             [] a = <<"n1", "s2">> -> 1
             [] a = <<"n2", "s1">> -> 2
CascadeAddresses == {<<"n1", "s1">>, <<"n1", "s2">>, <<"n2", "s1">>}
Derivations == {"forward", "gate", "relayout"}
AllConsumers ==
    {k \in [in : CascadeAddresses, out : CascadeAddresses, kind : Derivations] :
        Rank(k.in) < Rank(k.out)}
Graphs == {g \in SUBSET AllConsumers : \A j \in g, k \in g : j.out = k.out => j = k}
CascadePayloads ==
    {ResetPayload, SynthesisStartPayload, GeometricPayload}
    \cup {ResultPayload(g) : g \in GenIds}

\* what a consumer derives from the payload it read
Derive(kind, p) ==
    IF kind = "forward" THEN p
    ELSE IF kind = "gate" THEN Spread(p, [generationAllowed |-> F])
    ELSE Compact([status |-> Get(p, "status"), sourceReference |-> Get(p, "previewUrl"),
                  targetContainer |-> Def("D"), metrics |-> Def("m2"),
                  layers |-> Get(p, "layers")])
Observers(a) == IF "payloadRegistry" \in changed' THEN {k \in graph : k.in = a} ELSE {}

\* the upstream write, made when the previous cascade has settled
UpstreamWrite(p) ==
    /\ dirty = {}
    /\ opCount < MaxSetup + 1
    /\ opCount' = opCount + 1
    /\ RegisterPayload(CascadeSource[1], CascadeSource[2], p, Undef)
    /\ dirty' = Observers(CascadeSource)
    /\ UNCHANGED <<graph, runs, pureVars, commuteVars, teardownVars>>

\* a consumer whose input changed runs: read, derive, register
RunConsumer(k) ==
    /\ k \in dirty
    /\ Lookup(payloadRegistry, k.in[1], k.in[2]) # Undef
    /\ \E derived \in {Derive(k.kind, Lookup(payloadRegistry, k.in[1], k.in[2])[1])} :
            RegisterPayload(k.out[1], k.out[2], derived, Undef)
    /\ dirty' = (dirty \ {k}) \cup Observers(k.out)
    /\ UNCHANGED <<opCount, graph, runs, pureVars, commuteVars, teardownVars>>

RunSomeConsumer == \E k \in AllConsumers : RunConsumer(k)

InitCascade ==
    /\ NoStore /\ NoCall /\ NoFork /\ NoTeardown
    /\ graph \in Graphs
    /\ dirty = {}

NextCascade ==
    \/ \E p \in CascadePayloads : UpstreamWrite(p)
    \/ \E k \in AllConsumers : RunConsumer(k)

\* a consumer whose input changed is run eventually
SpecCascade == InitCascade /\ [][NextCascade]_vars /\ WF_vars(RunSomeConsumer)

----------------------------------------------------------------------------
(* Properties *)
StoredPayload(n, s) == Lookup(payloadRegistry, n, s)
GenPresent(p) == Get(p, "generationId") # Undef
GenOf(p) == Get(p, "generationId")[1]
MandatoryForced(p) ==
    /\ Get(p, "requiresGeneration") = T
    /\ \/ Get(p, "isMandatory") = T
       \/ (Get(p, "directives") # Undef
           /\ \E i \in DOMAIN Get(p, "directives")[1] :
                Get(p, "directives")[1][i] = "MANDATORY_GEN_FILL")

\* C1 (as claimed): in every reachable state every ReviewerRegistry entry has
\* isPolished = true, whatever payload was registered.
C1_ReviewerAlwaysPolished ==
    \A n \in Nodes, s \in Slots :
        Lookup(reviewerRegistry, n, s) # Undef
            => Get(Lookup(reviewerRegistry, n, s)[1], "isPolished") = T

\* C2 (as claimed): at every address, a generationId stored in PayloadRegistry is never
\* followed, before the entry is flushed or its node removed, by a strictly lesser one
\* (states where the stored payload has no generationId are skipped).
C2_GenerationNeverDecreases ==
    [][\A n \in Nodes, s \in Slots :
          (/\ lastGen[n, s] # Undef
           /\ StoredPayload(n, s)' # Undef
           /\ GenPresent(StoredPayload(n, s)'[1]))
          => GenOf(StoredPayload(n, s)'[1]) >= lastGen[n, s][1]]_vars

C4_SupersededResultDiscarded ==
    [][\A g \in GenIds :
          (runs[g] = "superseded" /\ runs'[g] = "late")
          => /\ StoredPayload("n1", "s1")' = StoredPayload("n1", "s1")
             /\ Get(StoredPayload("n1", "s1")'[1], "generationId") # Def(g)
             /\ (Get(StoredPayload("n1", "s1")[1], "previewUrl") = Undef
                    => Get(StoredPayload("n1", "s1")'[1], "previewUrl") = Undef)]_vars

\* C5: for an incoming payload with status idle and no generationId, and any current,
\* the result has previewUrl and sourceReference absent, isConfirmed, isTransient,
\* isSynthesizing, isPolished and requiresGeneration false, and every other field as
\* in incoming: it is a function of incoming alone.
StrippedByReset ==
    {"previewUrl", "isConfirmed", "isTransient", "isSynthesizing", "isPolished",
     "requiresGeneration", "sourceReference"}
C5_ResetProperty ==
    (/\ pc = "return"
     /\ Get(incoming, "status") = Def("idle")
     /\ ~GenPresent(incoming))
    => /\ Get(resolved[1], "previewUrl") = Undef
       /\ Get(resolved[1], "sourceReference") = Undef
       /\ \A k \in StrippedByReset \ {"previewUrl", "sourceReference"} :
            Get(resolved[1], k) = F
       /\ \A k \in ((DOMAIN incoming) \cup (DOMAIN resolved[1])) \ StrippedByReset :
            Get(resolved[1], k) = Get(incoming, k)

C5_Witness ==
    /\ pc = "return"
    /\ Get(incoming, "status") = Def("idle")
    /\ ~GenPresent(incoming)
    /\ Get(incoming, "previewUrl") = Def("a")
    /\ Get(incoming, "isPolished") = T
    /\ Get(incoming, "generationAllowed") = F
    /\ current # Undef
    /\ GenPresent(current[1])
    /\ Get(current[1], "isConfirmed") = T
    /\ Get(resolved[1], "isPolished") = F

\* C6: after unregisterNode(n) every one of the nine registries has no entry for n or
\* for any address (n, s), all at once, and globalVersion is exactly 1 greater than
\* before the call.
NodeAbsentEverywhere(n) ==
    /\ LookupNode(psdRegistry, n) = Undef
    /\ LookupNode(templateRegistry, n) = Undef
    /\ LookupNode(knowledgeRegistry, n) = Undef
    /\ n \notin DOMAIN resolvedRegistry
    /\ n \notin DOMAIN payloadRegistry
    /\ n \notin DOMAIN reviewerRegistry
    /\ n \notin DOMAIN previewRegistry
    /\ n \notin DOMAIN analysisRegistry
    /\ n \notin DOMAIN feedbackRegistry
    /\ \A s \in Slots :
        /\ Lookup(resolvedRegistry, n, s) = Undef
        /\ Lookup(payloadRegistry, n, s) = Undef
        /\ Lookup(reviewerRegistry, n, s) = Undef
        /\ Lookup(previewRegistry, n, s) = Undef
        /\ Lookup(analysisRegistry, n, s) = Undef
        /\ Lookup(feedbackRegistry, n, s) = Undef
C6_NodeTeardown ==
    [][\A n \in Nodes :
          (lastOp'.op = "unregisterNode" /\ lastOp'.node = n)
          => /\ NodeAbsentEverywhere(n)'
             /\ globalVersion' = globalVersion + 1]_vars

C6_Witness ==
    /\ lastOp.op = "unregisterNode"
    /\ {"knowledgeRegistry", "previewRegistry"} \subseteq changed
    /\ globalVersion = 1
    /\ NodeAbsentEverywhere(lastOp.node)

\* C7: after flushPipelineInstance(n, s) the address (n, s) is absent from the resolved,
\* payload, reviewer, preview, analysis and feedback registries, while every other
\* address in them, and every entry of the asset, template and knowledge registries,
\* is exactly as before the call.
C7_SlotFlushIsolation ==
    [][lastOp'.op = "flushPipelineInstance"
          => LET n == lastOp'.node
                 s == lastOp'.slot
             IN /\ Lookup(resolvedRegistry', n, s) = Undef
                /\ Lookup(payloadRegistry', n, s) = Undef
                /\ Lookup(reviewerRegistry', n, s) = Undef
                /\ Lookup(previewRegistry', n, s) = Undef
                /\ Lookup(analysisRegistry', n, s) = Undef
                /\ Lookup(feedbackRegistry', n, s) = Undef
                /\ \A m \in Nodes, t \in Slots :
                     (m # n \/ t # s)
                     => /\ Lookup(resolvedRegistry', m, t) = Lookup(resolvedRegistry, m, t)
                        /\ Lookup(payloadRegistry', m, t) = Lookup(payloadRegistry, m, t)
                        /\ Lookup(reviewerRegistry', m, t) = Lookup(reviewerRegistry, m, t)
                        /\ Lookup(previewRegistry', m, t) = Lookup(previewRegistry, m, t)
                        /\ Lookup(analysisRegistry', m, t) = Lookup(analysisRegistry, m, t)
                        /\ Lookup(feedbackRegistry', m, t) = Lookup(feedbackRegistry, m, t)
                /\ \A m \in Nodes :
                        /\ LookupNode(psdRegistry', m) = LookupNode(psdRegistry, m)
                        /\ LookupNode(templateRegistry', m) = LookupNode(templateRegistry, m)
                        /\ LookupNode(knowledgeRegistry', m) = LookupNode(knowledgeRegistry, m)]_vars

C7_Witness ==
    /\ lastOp.op = "flushPipelineInstance"
    /\ "payloadRegistry" \in changed
    /\ Lookup(payloadRegistry, lastOp.node, lastOp.slot) = Undef
    /\ \E t \in Slots \ {lastOp.slot} : Lookup(payloadRegistry, lastOp.node, t) # Undef
    /\ LookupNode(knowledgeRegistry, lastOp.node) # Undef

\* C8: calling registerPayload twice in a row with the same address and payload leaves
\* PayloadRegistry after the second call equal to PayloadRegistry after the first, and
\* the second call gives no change signal.
C8_RegisterTwice ==
    [][(lastOp'.op = "registerPayload" /\ lastOp'.again)
          => /\ payloadRegistry' = payloadRegistry
             /\ changed' = {}]_vars

C8_Witness ==
    /\ lastOp.op = "registerPayload"
    /\ lastOp.again
    /\ ~lastOp.raised
    /\ changed = {}
    /\ StoredPayload(lastOp.node, lastOp.slot) # Undef
    /\ Get(lastOp.args[1], "isSynthesizing") = T
    /\ GenPresent(StoredPayload(lastOp.node, lastOp.slot)[1])

\* C9 (as claimed): every operation that changes the value stored at an existing
\* PayloadRegistry address stores reconcile(candidate, current) for some candidate.
Candidates(cur) ==
    IncomingInputs
    \cup PayloadInputs
    \cup {Spread(p, [generationAllowed |-> F]) : p \in PayloadInputs}
    \cup {Spread(cur, q) : q \in PayloadPartials}
    \cup {Spread(cur, [previewUrl |-> Def(u)]) : u \in PayloadUrls}
C9_OnlyThroughReconcile ==
    [][\A n \in Nodes, s \in Slots :
          (/\ StoredPayload(n, s) # Undef
           /\ StoredPayload(n, s)' # Undef
           /\ StoredPayload(n, s)' # StoredPayload(n, s))
          => \E c \in Candidates(StoredPayload(n, s)[1]) :
                /\ ~reconcileThrows(c)
                /\ StoredPayload(n, s)'[1]
                        = reconcileTerminalState(c, StoredPayload(n, s))]_vars

\* C10 (as claimed): for an incoming payload with generationAllowed = false that
\* reaches the hard stop, the result's layers are incoming's layers, in order, minus
\* every generative layer whose id starts with 'gen-layer-'; a generative layer whose
\* id lacks the prefix (an empty or missing id included) is retained.
RECURSIVE WithoutAdditive(_)
IsAdditive(l) ==
    /\ Get(l, "type") = Def("generative")
    /\ Get(l, "id") # Undef
    /\ Len(Get(l, "id")[1]) >= Len(GenLayerPrefix)
    /\ \A i \in 1..Len(GenLayerPrefix) : Get(l, "id")[1][i] = GenLayerPrefix[i]
WithoutAdditive(ls) ==
    IF ls = <<>> THEN <<>>
    ELSE IF IsAdditive(Head(ls)) THEN WithoutAdditive(Tail(ls))
         ELSE <<Head(ls)>> \o WithoutAdditive(Tail(ls))
C10_GateFiltering ==
    (/\ pc = "return"
     /\ Get(incoming, "generationAllowed") = F
     /\ ~(Get(incoming, "status") = Def("idle") /\ ~GenPresent(incoming))
     /\ Get(incoming, "layers") # Undef)
    => Get(resolved[1], "layers") = Def(WithoutAdditive(Get(incoming, "layers")[1]))

\* C11: for an incoming payload with requiresGeneration = true and isMandatory = true or
\* the 'MANDATORY_GEN_FILL' directive, that is neither a reset nor gated, and any current
\* (absent, or with any generationId, a greater one included), the result has status
\* success, isConfirmed true and isTransient false, and takes previewUrl, sourceReference
\* and generationId from incoming when present, else from current.
IsResetPayload(p) == Get(p, "status") = Def("idle") /\ ~GenPresent(p)
FromIncomingElseCurrent(k) ==
    IF Get(incoming, k) # Undef THEN Get(incoming, k)
    ELSE IF current = Undef THEN Undef
    ELSE Get(current[1], k)
C11_MandatoryAutoConfirm ==
    (/\ pc = "return"
     /\ MandatoryForced(incoming)
     /\ ~IsResetPayload(incoming)
     /\ Get(incoming, "generationAllowed") # F)
    => /\ Get(resolved[1], "status") = Def("success")
       /\ Get(resolved[1], "isConfirmed") = T
       /\ Get(resolved[1], "isTransient") = F
       /\ \A k \in {"previewUrl", "sourceReference", "generationId"} :
            Get(resolved[1], k) = FromIncomingElseCurrent(k)

C11_Witness ==
    /\ pc = "return"
    /\ Get(incoming, "requiresGeneration") = T
    /\ Get(incoming, "isMandatory") = Undef
    /\ Get(incoming, "directives") = Def(MandatoryDirectives)
    /\ Get(incoming, "status") = Def("pending")
    /\ Get(incoming, "isTransient") = T
    /\ Get(incoming, "generationId") = Def(1)
    /\ Get(incoming, "previewUrl") = Undef
    /\ current # Undef
    /\ Get(current[1], "generationId") = Def(2)
    /\ Get(resolved[1], "status") = Def("success")
    /\ Get(resolved[1], "previewUrl") = Def("b")
    /\ Get(resolved[1], "generationId") = Def(1)

\* C12: for a current and an incoming with the same present generationId, where
\* incoming is not idle, not gated, not mandatory-forced and not synthesizing, the result
\* carries incoming's layers and the shared generationId (the write is not rejected as
\* stale).
C12_EqualGenerationPassThrough ==
    (/\ pc = "return"
     /\ current # Undef
     /\ GenPresent(incoming) /\ GenPresent(current[1])
     /\ GenOf(incoming) = GenOf(current[1])
     /\ Get(incoming, "status") # Def("idle")
     /\ Get(incoming, "generationAllowed") # F
     /\ ~MandatoryForced(incoming)
     /\ Get(incoming, "isSynthesizing") # T)
    => /\ Get(resolved[1], "layers") = Get(incoming, "layers")
       /\ Get(resolved[1], "generationId") = Get(incoming, "generationId")

C12_Witness ==
    /\ pc = "return"
    /\ current # Undef
    /\ Get(incoming, "generationId") = Def(2)
    /\ Get(current[1], "generationId") = Def(2)
    /\ Get(incoming, "status") = Def("pending")
    /\ Get(incoming, "generationAllowed") = Undef
    /\ ~MandatoryForced(incoming)
    /\ Get(incoming, "isSynthesizing") = Undef
    /\ Get(current[1], "layers") # Get(incoming, "layers")
    /\ Get(resolved[1], "layers") = Def(BaseLayers)
    /\ Get(resolved[1], "metrics") = Def("m")

\* C13: when registerPayload or updatePayload is called with a candidate that the stale
\* guard rejects (the candidate is not a reset, not gated, not mandatory-forced, and its
\* generationId is strictly less than the stored one), no exception is raised, every
\* registry and globalVersion are exactly as before the call, and there is no change
\* signal.
CandidateOf(op, cur) ==
    IF op.op = "registerPayload"
    THEN IF op.args[2] = F THEN Spread(op.args[1], [generationAllowed |-> F]) ELSE op.args[1]
    ELSE Spread(cur, op.args[1])
RejectedByStaleGuard(c, cur) ==
    /\ ~IsResetPayload(c)
    /\ Get(c, "generationAllowed") # F
    /\ ~MandatoryForced(c)
    /\ GenPresent(c) /\ GenPresent(cur)
    /\ GenOf(c) < GenOf(cur)
C13_SilentStaleRejection ==
    [][\A n \in Nodes, s \in Slots :
          (/\ lastOp'.op \in {"registerPayload", "updatePayload"}
           /\ lastOp'.node = n /\ lastOp'.slot = s
           /\ StoredPayload(n, s) # Undef
           /\ RejectedByStaleGuard(CandidateOf(lastOp', StoredPayload(n, s)[1]),
                                   StoredPayload(n, s)[1]))
          => /\ ~lastOp'.raised
             /\ registries' = registries
             /\ globalVersion' = globalVersion
             /\ changed' = {}]_vars

C13_Witness ==
    /\ lastOp.op = "registerPayload"
    /\ ~lastOp.again
    /\ ~lastOp.raised
    /\ changed = {}
    /\ lastOp.args[1] = ResultPayload(1)
    /\ lastOp.args[2] = Undef
    /\ StoredPayload(lastOp.node, lastOp.slot) # Undef
    /\ Get(StoredPayload(lastOp.node, lastOp.slot)[1], "generationId") = Def(2)
    /\ Get(StoredPayload(lastOp.node, lastOp.slot)[1], "generationAllowed") = T

C13_WitnessUpdate ==
    /\ lastOp.op = "updatePayload"
    /\ ~lastOp.again
    /\ ~lastOp.raised
    /\ changed = {}
    /\ Get(lastOp.args[1], "generationId") = Def(1)
    /\ StoredPayload(lastOp.node, lastOp.slot) # Undef
    /\ Get(StoredPayload(lastOp.node, lastOp.slot)[1], "generationId") = Def(2)
    /\ Get(StoredPayload(lastOp.node, lastOp.slot)[1], "generationAllowed") = T
    /\ Get(StoredPayload(lastOp.node, lastOp.slot)[1], "sourceContainer") = Undef

\* C14 (as claimed): registerPayload, registerReviewerPayload, registerPreviewPayload and
\* updatePayload complete without an exception for every address, store state and payload
\* or partial value, updatePayload on an address with no payload and a partial carrying a
\* previewUrl and generationAllowed = false but no layers included.
WriteEntryPoints ==
    {"registerPayload", "registerReviewerPayload", "registerPreviewPayload", "updatePayload"}
C14_NoWriteRaises == lastOp.op \in WriteEntryPoints => ~lastOp.raised

\* C15: updatePayload(address, partial) changes nothing (every registry and globalVersion
\* as before, no entry created, no change signal, no exception) whenever the address has
\* no payload in PayloadRegistry and partial carries neither a sourceContainer nor a
\* previewUrl.
C15_UpdateMissingIsNoOp ==
    [][\A n \in Nodes, s \in Slots :
          (/\ lastOp'.op = "updatePayload"
           /\ lastOp'.node = n /\ lastOp'.slot = s
           /\ StoredPayload(n, s) = Undef
           /\ Get(lastOp'.args[1], "sourceContainer") = Undef
           /\ Get(lastOp'.args[1], "previewUrl") = Undef)
          => /\ ~lastOp'.raised
             /\ registries' = registries
             /\ globalVersion' = globalVersion
             /\ changed' = {}]_vars

C15_Witness ==
    /\ lastOp.op = "updatePayload"
    /\ lastOp.args[1] = [generationAllowed |-> F]
    /\ ~lastOp.raised
    /\ changed = {}
    /\ StoredPayload(lastOp.node, lastOp.slot) = Undef
    /\ lastOp.node \in DOMAIN payloadRegistry

\* C16 (as claimed): for each registry writer (registerPsd, registerTemplate,
\* registerResolved, registerAnalysis, registerFeedback, registerKnowledge and the
\* PreviewRegistry write of registerPreviewPayload), writing a value equal to the value
\* already stored at that key leaves the registry unchanged and gives no change signal
\* for it.
EqualNodeWrite(name, reg) ==
    /\ lastOp'.op = name
    /\ LookupNode(reg, lastOp'.node) = Def(lastOp'.args[1])
EqualSlotWrite(name, reg, i) ==
    /\ lastOp'.op = name
    /\ Lookup(reg, lastOp'.node, lastOp'.slot) = Def(lastOp'.args[i])
Suppressed(name, old, new) == new = old /\ name \notin changed'
SuppressionExceptPsd ==
    /\ EqualNodeWrite("registerTemplate", templateRegistry)
            => Suppressed("templateRegistry", templateRegistry, templateRegistry')
    /\ EqualNodeWrite("registerKnowledge", knowledgeRegistry)
            => Suppressed("knowledgeRegistry", knowledgeRegistry, knowledgeRegistry')
    /\ EqualSlotWrite("registerResolved", resolvedRegistry, 1)
            => Suppressed("resolvedRegistry", resolvedRegistry, resolvedRegistry')
    /\ EqualSlotWrite("registerAnalysis", analysisRegistry, 1)
            => Suppressed("analysisRegistry", analysisRegistry, analysisRegistry')
    /\ EqualSlotWrite("registerFeedback", feedbackRegistry, 1)
            => Suppressed("feedbackRegistry", feedbackRegistry, feedbackRegistry')
    /\ EqualSlotWrite("registerPreviewPayload", previewRegistry, 2)
            => Suppressed("previewRegistry", previewRegistry, previewRegistry')
C16_EqualitySuppression ==
    [][/\ EqualNodeWrite("registerPsd", psdRegistry)
            => Suppressed("psdRegistry", psdRegistry, psdRegistry')
       /\ SuppressionExceptPsd]_vars

\* C17: for any store state and any two writes (registerPayload, updatePayload,
\* registerReviewerPayload, registerAnalysis, registerFeedback, registerResolved) on two
\* distinct addresses, applying them in either order yields the same final store.
C17_DistinctAddressesCommute ==
    (fork # Undef /\ fork[1].stage = "joined") => other[1] = Snapshot

C17_Witness ==
    /\ fork # Undef
    /\ fork[1].stage = "joined"
    /\ fork[1].first.op = "registerPayload"
    /\ fork[1].second.op = "updatePayload"
    /\ fork[1].first.node = fork[1].second.node
    /\ fork[1].first.slot # fork[1].second.slot
    /\ opCount = 1
    /\ Lookup(payloadRegistry, fork[1].first.node, fork[1].first.slot) # Undef
    /\ Lookup(payloadRegistry, fork[1].second.node, fork[1].second.slot) # Undef
    /\ Get(Lookup(payloadRegistry, fork[1].second.node, fork[1].second.slot)[1],
           "generationId") = Def(2)
    /\ other[1] = Snapshot

\* C18: globalVersion starts at 0 and never decreases: every step leaves it equal or 1
\* greater, and it increases only in unregisterNode and triggerGlobalRefresh; every
\* register*, update*, clearFeedback and flushPipelineInstance call leaves it unchanged.
C18_GlobalVersionMonotonic ==
    /\ globalVersion = 0
    /\ [][/\ globalVersion' \in {globalVersion, globalVersion + 1}
          /\ globalVersion' # globalVersion
                => lastOp'.op \in {"unregisterNode", "triggerGlobalRefresh"}]_vars

C18_Witness ==
    /\ globalVersion = 2
    /\ lastOp.op = "flushPipelineInstance"
    /\ opCount = 3

\* C19: triggerGlobalRefresh() increases globalVersion by exactly 1 and leaves all nine
\* registries unchanged.
C19_RefreshFrame ==
    [][lastOp'.op = "triggerGlobalRefresh"
          => /\ globalVersion' = globalVersion + 1
             /\ registries' = registries]_vars

C19_Witness ==
    /\ lastOp.op = "triggerGlobalRefresh"
    /\ globalVersion = 1
    /\ changed = {"globalVersion"}
    /\ Lookup(previewRegistry, "n1", "s1") # Undef
    /\ Lookup(reviewerRegistry, "n1", "s1") # Undef
    /\ LookupNode(psdRegistry, "n2") # Undef

\* C20: clearFeedback(n, s) removes exactly the FeedbackRegistry entry at (n, s) when it
\* is present and leaves every other FeedbackRegistry entry, every other registry and
\* globalVersion unchanged; when no entry exists at (n, s) the whole store is unchanged
\* and there is no change signal.
C20_ClearFeedbackFrame ==
    [][\A n \in Nodes, s \in Slots :
          (lastOp'.op = "clearFeedback" /\ lastOp'.node = n /\ lastOp'.slot = s)
          => /\ UNCHANGED <<psdRegistry, templateRegistry, resolvedRegistry, payloadRegistry,
                            reviewerRegistry, previewRegistry, analysisRegistry,
                            knowledgeRegistry, globalVersion>>
             /\ IF Lookup(feedbackRegistry, n, s) # Undef
                THEN /\ Lookup(feedbackRegistry', n, s) = Undef
                     /\ \A m \in Nodes, t \in Slots :
                            (m # n \/ t # s)
                            => Lookup(feedbackRegistry', m, t) = Lookup(feedbackRegistry, m, t)
                ELSE /\ feedbackRegistry' = feedbackRegistry
                     /\ changed' = {}]_vars

C20_Witness ==
    /\ lastOp.op = "clearFeedback"
    /\ changed = {"feedbackRegistry"}
    /\ Lookup(feedbackRegistry, lastOp.node, lastOp.slot) = Undef
    /\ \E t \in Slots \ {lastOp.slot} : Lookup(feedbackRegistry, lastOp.node, t) # Undef

\* C22 (as claimed): on every incoming and every current (present or absent) the result
\* of reconcileTerminalState equals, field by field, the output of the first matching
\* rule of the table of section 4.1: reset, hard-stop gate, mandatory auto-confirm, stale
\* guard, idle sanitation, synthesis start, geometric preservation, default construction.
RuleTable(inc, cur) ==
    LET c(k) == IF cur = Undef THEN Undef ELSE Get(cur[1], k)
        IncElseCur(k) == IF Get(inc, k) # Undef THEN Get(inc, k) ELSE c(k)
        CurElseInc(k) == IF c(k) # Undef THEN c(k) ELSE Get(inc, k)
        confirmed ==
            IF Get(inc, "isTransient") = T THEN F
            ELSE IF Get(inc, "isConfirmed") # Undef THEN Get(inc, "isConfirmed")
            ELSE IF c("isConfirmed") # Undef THEN c("isConfirmed")
            ELSE F
    IN
    IF IsResetPayload(inc) THEN
        Spread(inc, [previewUrl |-> Undef, isConfirmed |-> F, isTransient |-> F,
                     isSynthesizing |-> F, isPolished |-> F, requiresGeneration |-> F,
                     sourceReference |-> Undef])
    ELSE IF Get(inc, "generationAllowed") = F THEN
        Spread(inc, [previewUrl |-> Undef, isConfirmed |-> F, isTransient |-> F,
                     isSynthesizing |-> F, requiresGeneration |-> F,
                     layers |-> Def(WithoutAdditive(Get(inc, "layers")[1]))])
    ELSE IF MandatoryForced(inc) THEN
        Spread(inc, [status |-> Def("success"), isConfirmed |-> T, isTransient |-> F,
                     previewUrl |-> IncElseCur("previewUrl"),
                     sourceReference |-> IncElseCur("sourceReference"),
                     generationId |-> IncElseCur("generationId")])
    ELSE IF cur # Undef /\ GenPresent(cur[1]) /\ GenPresent(inc)
            /\ GenOf(inc) < GenOf(cur[1]) THEN
        cur[1]
    ELSE IF Get(inc, "status") = Def("idle") THEN
        Spread(inc, [previewUrl |-> Undef, isConfirmed |-> F, isTransient |-> F,
                     isSynthesizing |-> F])
    ELSE IF Get(inc, "isSynthesizing") = T THEN
        Spread(IF cur # Undef THEN cur[1] ELSE inc,
               [isSynthesizing |-> T,
                previewUrl |-> c("previewUrl"),
                sourceReference |-> IncElseCur("sourceReference"),
                targetContainer |-> IncElseCur("targetContainer"),
                metrics |-> IncElseCur("metrics"),
                generationId |-> c("generationId"),
                generationAllowed |-> T])
    ELSE IF ~GenPresent(inc) /\ cur # Undef /\ GenPresent(cur[1]) THEN
        Spread(inc, [previewUrl |-> c("previewUrl"),
                     generationId |-> c("generationId"),
                     isSynthesizing |-> c("isSynthesizing"),
                     isConfirmed |-> c("isConfirmed"),
                     isTransient |-> c("isTransient"),
                     sourceReference |-> CurElseInc("sourceReference"),
                     generationAllowed |-> T])
    ELSE
        Spread(inc, [isConfirmed |-> confirmed,
                     sourceReference |-> IncElseCur("sourceReference"),
                     generationId |-> IncElseCur("generationId"),
                     generationAllowed |-> T])
SameFields(a, b) == \A k \in (DOMAIN a) \cup (DOMAIN b) : Get(a, k) = Get(b, k)
C22_AgreesWithRuleTable ==
    pc = "return" => SameFields(resolved[1], RuleTable(incoming, current))

\* C24: for every incoming payload with generationAllowed = false, and for every
\* registerPayload call made with masterOverride = false whatever the payload's own
\* generationAllowed, and for every current (synthesizing, confirmed or of a greater
\* generationId included), the resolved payload has previewUrl absent, isConfirmed,
\* isTransient, isSynthesizing and requiresGeneration false, and incoming's metrics.
Stripped(p, inc) ==
    /\ Get(p, "previewUrl") = Undef
    /\ Get(p, "isConfirmed") = F
    /\ Get(p, "isTransient") = F
    /\ Get(p, "isSynthesizing") = F
    /\ Get(p, "requiresGeneration") = F
    /\ Get(p, "metrics") = Get(inc, "metrics")
C24_HardStopStrips ==
    /\ (pc = "return" /\ Get(incoming, "generationAllowed") = F)
            => Stripped(resolved[1], incoming)
    /\ (/\ lastOp.op = "registerPayload"
        /\ (lastOp.args[2] = F \/ Get(lastOp.args[1], "generationAllowed") = F))
            => /\ StoredPayload(lastOp.node, lastOp.slot) # Undef
               /\ Stripped(StoredPayload(lastOp.node, lastOp.slot)[1], lastOp.args[1])

C24_Witness ==
    /\ lastOp.op = "registerPayload"
    /\ lastOp.args[2] = F
    /\ lastOp.args[1] = ResultPayload(1)
    /\ changed = {"payloadRegistry"}
    /\ Get(StoredPayload(lastOp.node, lastOp.slot)[1], "generationId") = Def(1)
    /\ Get(StoredPayload(lastOp.node, lastOp.slot)[1], "generationAllowed") = F
    /\ Get(StoredPayload(lastOp.node, lastOp.slot)[1], "previewUrl") = Undef
    /\ Get(StoredPayload(lastOp.node, lastOp.slot)[1], "isConfirmed") = F
    /\ Get(StoredPayload(lastOp.node, lastOp.slot)[1], "metrics") = Def("m")

\* C23: a registerPayload write whose incoming payload has no generationId, no previewUrl,
\* a status other than idle and generationAllowed other than false, to a slot whose stored
\* payload has a generationId, leaves the stored previewUrl and generationId as they were,
\* and a stored isConfirmed = true stays true.
GeometricOnlyWrite(p) ==
    /\ Get(p, "generationId") = Undef
    /\ Get(p, "previewUrl") = Undef
    /\ Get(p, "status") # Def("idle")
    /\ Get(p, "generationAllowed") # F
C23_GeometricPreservation ==
    [][\A n \in Nodes, s \in Slots :
        (/\ lastOp'.op = "registerPayload" /\ lastOp'.node = n /\ lastOp'.slot = s
         /\ lastOp'.args[2] # F
         /\ GeometricOnlyWrite(lastOp'.args[1])
         /\ StoredPayload(n, s) # Undef
         /\ GenPresent(StoredPayload(n, s)[1]))
        => /\ Lookup(payloadRegistry', n, s) # Undef
           /\ Get(Lookup(payloadRegistry', n, s)[1], "previewUrl")
                = Get(StoredPayload(n, s)[1], "previewUrl")
           /\ Get(Lookup(payloadRegistry', n, s)[1], "generationId")
                = Get(StoredPayload(n, s)[1], "generationId")
           /\ (Get(StoredPayload(n, s)[1], "isConfirmed") = T
                => Get(Lookup(payloadRegistry', n, s)[1], "isConfirmed") = T)]_vars

C23_Witness ==
    /\ lastOp.op = "registerPayload"
    /\ lastOp.args = <<GeometricPayload, Undef>>
    /\ changed = {"payloadRegistry"}
    /\ Get(StoredPayload(lastOp.node, lastOp.slot)[1], "metrics") = Def("m2")
    /\ Get(StoredPayload(lastOp.node, lastOp.slot)[1], "previewUrl") = Def("a")
    /\ Get(StoredPayload(lastOp.node, lastOp.slot)[1], "generationId") = Def(2)
    /\ Get(StoredPayload(lastOp.node, lastOp.slot)[1], "isConfirmed") = T

\* C26: an incoming payload with isSynthesizing = true that is not a reset, not gated, not
\* mandatory-forced, not stale and not idle, reconciled against a present current, gives a
\* result with isSynthesizing = true, generationAllowed = true, and current's previewUrl and
\* generationId, whatever previewUrl and generationId incoming carries.
ReachesSynthesisStart(inc, cur) ==
    /\ Get(inc, "isSynthesizing") = T
    /\ ~IsResetPayload(inc)
    /\ Get(inc, "generationAllowed") # F
    /\ ~MandatoryForced(inc)
    /\ ~(/\ cur # Undef /\ GenPresent(cur[1]) /\ GenPresent(inc)
          /\ GenOf(inc) < GenOf(cur[1]))
    /\ Get(inc, "status") # Def("idle")
C26_SynthesisStartKeepsLastGood ==
    (pc = "return" /\ current # Undef /\ ReachesSynthesisStart(incoming, current))
    => /\ Get(resolved[1], "isSynthesizing") = T
       /\ Get(resolved[1], "generationAllowed") = T
       /\ Get(resolved[1], "previewUrl") = Get(current[1], "previewUrl")
       /\ Get(resolved[1], "generationId") = Get(current[1], "generationId")

C26_Witness ==
    /\ pc = "return"
    /\ ReachesSynthesisStart(incoming, current)
    /\ Get(incoming, "previewUrl") = Def("a")
    /\ Get(incoming, "generationId") = Def(2)
    /\ current # Undef
    /\ Get(current[1], "previewUrl") = Def("b")
    /\ Get(current[1], "generationId") = Def(1)
    /\ Get(resolved[1], "previewUrl") = Def("b")
    /\ Get(resolved[1], "generationId") = Def(1)
    /\ Get(resolved[1], "isSynthesizing") = T

\* C27: no payload stored in PayloadRegistry or ReviewerRegistry has both isTransient = true
\* and isConfirmed = true.
TransientAndConfirmed(p) == Get(p, "isTransient") = T /\ Get(p, "isConfirmed") = T
C27_TransientNeverConfirmed ==
    \A n \in Nodes, s \in Slots :
        /\ (StoredPayload(n, s) # Undef => ~TransientAndConfirmed(StoredPayload(n, s)[1]))
        /\ (Lookup(reviewerRegistry, n, s) # Undef
                => ~TransientAndConfirmed(Lookup(reviewerRegistry, n, s)[1]))

\* C28: every payload stored in PayloadRegistry with generationAllowed = false has
\* previewUrl absent, isConfirmed = false and isSynthesizing = false.
C28_GatedStoredIsStripped ==
    \A n \in Nodes, s \in Slots :
        (StoredPayload(n, s) # Undef /\ Get(StoredPayload(n, s)[1], "generationAllowed") = F)
        => /\ Get(StoredPayload(n, s)[1], "previewUrl") = Undef
           /\ Get(StoredPayload(n, s)[1], "isConfirmed") = F
           /\ Get(StoredPayload(n, s)[1], "isSynthesizing") = F

\* C25: in every reachable store state, for every address holding a payload c in
\* PayloadRegistry, registerPayload(address, c) leaves PayloadRegistry unchanged and gives
\* no change signal.
WriteBack(n, s) ==
    registerPayloadUpdater(payloadRegistry, n, s, StoredPayload(n, s)[1], Undef)
C25_WriteBackFixedPoint ==
    \A n \in Nodes, s \in Slots :
        StoredPayload(n, s) # Undef
        => /\ WriteBack(n, s).reg = payloadRegistry
           /\ ~WriteBack(n, s).isNew
           /\ ~WriteBack(n, s).raised

\* C30: unregisterNode(n) leaves the entries of every other node m in all nine registries
\* as they were: every key m, and so every address (m, s), maps to the same value after
\* the call as before it.
SameNodeEntries(m) ==
    /\ LookupNode(psdRegistry', m) = LookupNode(psdRegistry, m)
    /\ LookupNode(templateRegistry', m) = LookupNode(templateRegistry, m)
    /\ LookupNode(resolvedRegistry', m) = LookupNode(resolvedRegistry, m)
    /\ LookupNode(payloadRegistry', m) = LookupNode(payloadRegistry, m)
    /\ LookupNode(reviewerRegistry', m) = LookupNode(reviewerRegistry, m)
    /\ LookupNode(previewRegistry', m) = LookupNode(previewRegistry, m)
    /\ LookupNode(analysisRegistry', m) = LookupNode(analysisRegistry, m)
    /\ LookupNode(feedbackRegistry', m) = LookupNode(feedbackRegistry, m)
    /\ LookupNode(knowledgeRegistry', m) = LookupNode(knowledgeRegistry, m)
C30_UnregisterFrame ==
    [][lastOp'.op = "unregisterNode"
          => \A m \in Nodes \ {lastOp'.node} : SameNodeEntries(m)]_vars

C30_Witness ==
    /\ lastOp.op = "unregisterNode"
    /\ "knowledgeRegistry" \in changed
    /\ lastOp.node \notin DOMAIN payloadRegistry
    /\ \E m \in Nodes \ {lastOp.node}, s \in Slots :
            /\ StoredPayload(m, s) = Def(reconcileTerminalState(ResultPayload(1), Undef))
            /\ LookupNode(knowledgeRegistry, m) = Undef

\* C29 (as stated): after flushPipelineInstance(n, s) or unregisterNode(n), the next
\* registerPayload at (n, s) is handled as a first registration with current absent: a
\* payload that is not a reset and not gated is stored with its own generationId, even
\* when it is less than the generationId stored at (n, s) before the flush or removal.
FirstAfterTeardown(n, s) ==
    /\ lastOp'.op = "registerPayload" /\ lastOp'.node = n /\ lastOp'.slot = s
    /\ teardown[n, s] # Undef
    /\ teardown[n, s][1].writes = 0
NotResetNotGated(p, masterOverride) ==
    /\ ~IsResetPayload(p)
    /\ Get(p, "generationAllowed") # F
    /\ masterOverride # F
C29_TeardownResetsStaleGuard ==
    [][\A n \in Nodes, s \in Slots :
        (FirstAfterTeardown(n, s) /\ NotResetNotGated(lastOp'.args[1], lastOp'.args[2]))
        => /\ Lookup(payloadRegistry', n, s)
                = Def(reconcileTerminalState(lastOp'.args[1], Undef))
           /\ Get(Lookup(payloadRegistry', n, s)[1], "generationId")
                = Get(lastOp'.args[1], "generationId")]_vars

\* C29 (amended): the same, for a payload that moreover does not take the synthesis-start
\* rule and whose generationId, if it has one, is not 0.
TakesSynthesisStart(p) ==
    /\ Get(p, "isSynthesizing") = T
    /\ ~MandatoryForced(p)
    /\ Get(p, "status") # Def("idle")
C29_TeardownResetsStaleGuardUnlessSynthesizing ==
    [][\A n \in Nodes, s \in Slots :
        (/\ FirstAfterTeardown(n, s)
         /\ NotResetNotGated(lastOp'.args[1], lastOp'.args[2])
         /\ ~TakesSynthesisStart(lastOp'.args[1])
         /\ Get(lastOp'.args[1], "generationId") # Def(0))
        => /\ Lookup(payloadRegistry', n, s)
                = Def(reconcileTerminalState(lastOp'.args[1], Undef))
           /\ Get(Lookup(payloadRegistry', n, s)[1], "generationId")
                = Get(lastOp'.args[1], "generationId")]_vars

C29_Witness ==
    /\ lastOp.op = "registerPayload"
    /\ lastOp.args = <<ResultPayload(1), Undef>>
    /\ teardown[lastOp.node, lastOp.slot] # Undef
    /\ teardown[lastOp.node, lastOp.slot][1].writes = 1
    /\ teardown[lastOp.node, lastOp.slot][1].by = "flushPipelineInstance"
    /\ Get(teardown[lastOp.node, lastOp.slot][1].removed, "generationId") = Def(2)
    /\ changed = {"payloadRegistry"}
    /\ Get(StoredPayload(lastOp.node, lastOp.slot)[1], "generationId") = Def(1)

\* C21: in an acyclic producer/consumer graph whose consumers, on a change of their input
\* slot, derive a value from it and register it at their own output slot, every upstream
\* write is followed by finitely many registry changes: the cascade reaches a quiescent
\* state, and in a quiescent state re-running every consumer changes nothing.
Quiescent == dirty = {}
Rerun(k) ==
    registerPayloadUpdater(payloadRegistry, k.out[1], k.out[2],
        Derive(k.kind, Lookup(payloadRegistry, k.in[1], k.in[2])[1]), Undef)
RerunChangesNothing ==
    \A k \in graph :
        Lookup(payloadRegistry, k.in[1], k.in[2]) # Undef
        => /\ ~Rerun(k).isNew
           /\ ~Rerun(k).raised
           /\ Rerun(k).reg = payloadRegistry
C21_CascadeTerminates ==
    /\ [](Quiescent => RerunChangesNothing)
    /\ (~Quiescent ~> Quiescent)

C21_Witness ==
    /\ Quiescent
    /\ opCount = 2
    /\ lastOp.op = "registerPayload"
    /\ changed = {"payloadRegistry"}
    /\ \E j \in graph, k \in graph :
            /\ j.in = CascadeSource
            /\ j.out = k.in
            /\ k.out = <<lastOp.node, lastOp.slot>>
            /\ GenPresent(StoredPayload(j.out[1], j.out[2])[1])
            /\ StoredPayload(k.out[1], k.out[2]) # Undef

====
